---- MODULE Spec2Model ----
(***************************************************************************)
(* Model of fuel_can_packer (src/src/lib.rs, default build: the greedy     *)
(* planner, feature solver_z3 off).                                        *)
(*                                                                         *)
(* A run enters gross weights for the three MSR sizes (GrossInput), builds *)
(* the canister list with build_cans_from_gross and plans with solve_plan, *)
(* as compute_plan_text (lib.rs 458-468) and the CLI (bin/cli.rs) do.      *)
(*                                                                         *)
(* Vectors are 1-based sequences here: canister i of the source (0-based)  *)
(* is index i+1.  Can.id is left out: no planner code reads it.  All       *)
(* weights stay far below the i32 range, where i32 arithmetic is exact.    *)
(***************************************************************************)
EXTENDS Integers, Sequences, FiniteSets

VARIABLES input, pc, built, result

vars == <<input, pc, built, result>>

-----------------------------------------------------------------------------
(* Bounds of the model *)

\* at most this many gross weights are entered in total
MaxCans == 4

\* the gross weights a user may enter for each size: below the empty weight
\* (rejected), empty, partly filled, full, and more fuel than the capacity
Gross110 == {100, 101, 141, 211, 301}
Gross227 == {146, 147, 152, 374}
Gross450 == {215, 216, 366}

-----------------------------------------------------------------------------
(* Catalog, lib.rs 22-36 *)

MSR_110 == [name |-> "MSR 110g", capacity |-> 110, empty_weight |-> 101]
MSR_227 == [name |-> "MSR 227g", capacity |-> 227, empty_weight |-> 147]
MSR_450 == [name |-> "MSR 450g", capacity |-> 450, empty_weight |-> 216]

\* i32::MAX, the initial best_weight
I32_MAX == 2147483647
\* usize::MAX, the initial best_count: any value above every subset size
\* behaves the same; the largest integer of the checker stands for it
USIZE_MAX == 2147483647

Min(a, b) == IF a < b THEN a ELSE b

RECURSIVE Pow2(_)
Pow2(k) == IF k = 0 THEN 1 ELSE 2 * Pow2(k - 1)

\* s[1] + ... + s[k]
RECURSIVE SumTo(_, _)
SumTo(s, k) == IF k = 0 THEN 0 ELSE SumTo(s, k - 1) + s[k]

SumSeq(s) == SumTo(s, Len(s))

Replicate(x, n) == [i \in 1..n |-> x]

-----------------------------------------------------------------------------
(* Canister Instance Builder, lib.rs 52-77 *)

NoError == [gross |-> 0, name |-> "", empty_weight |-> 0]

\* the loop of push_cans from element k on: Err at the first gross weight
\* below the empty weight, else the can is pushed with fuel = gross - empty
RECURSIVE PushFrom(_, _, _, _)
PushFrom(out, spec, gross_list, k) ==
    IF k > Len(gross_list)
    THEN [tag |-> "Ok", cans |-> out, err |-> NoError]
    ELSE LET gross == gross_list[k]
             fuel  == gross - spec.empty_weight
         IN  IF fuel < 0
             THEN [tag |-> "Err", cans |-> <<>>,
                   err |-> [gross |-> gross, name |-> spec.name,
                            empty_weight |-> spec.empty_weight]]
             ELSE PushFrom(Append(out, [spec |-> spec, gross |-> gross, fuel |-> fuel]),
                           spec, gross_list, k + 1)

\* a gross weight below the empty weight pushed with fuel clamped to 0
RECURSIVE PushFrom_Clamp(_, _, _, _)
PushFrom_Clamp(out, spec, gross_list, k) ==
    IF k > Len(gross_list)
    THEN [tag |-> "Ok", cans |-> out, err |-> NoError]
    ELSE LET gross == gross_list[k]
             fuel  == gross - spec.empty_weight
         IN  PushFrom_Clamp(Append(out, [spec |-> spec, gross |-> gross,
                                         fuel |-> IF fuel < 0 THEN 0 ELSE fuel]),
                            spec, gross_list, k + 1)

push_cans_Clamp(out, spec, gross_list) == PushFrom_Clamp(out, spec, gross_list, 1)

push_cans(out, spec, gross_list) == PushFrom(out, spec, gross_list, 1)

build_cans_from_gross(in) ==
    LET r1 == push_cans(<<>>, MSR_110, in.msr_110)
    IN  IF r1.tag = "Err" THEN r1
        ELSE LET r2 == push_cans(r1.cans, MSR_227, in.msr_227)
             IN  IF r2.tag = "Err" THEN r2
                 ELSE push_cans(r2.cans, MSR_450, in.msr_450)

total_fuel(cans) == SumSeq([i \in 1..Len(cans) |-> cans[i].fuel])

-----------------------------------------------------------------------------
(* Consolidation Planner: subset search, lib.rs 242-270 *)

PlanErr(msg, path) ==
    [tag |-> "Err", err |-> msg, keep |-> <<>>, final_fuel |-> <<>>,
     transfers |-> <<>>, path |-> path]

PlanOk(keep, final_fuel, transfers, path) ==
    [tag |-> "Ok", err |-> "", keep |-> keep, final_fuel |-> final_fuel,
     transfers |-> transfers, path |-> path]

\* keep_flags of one mask: bit i of the mask is canister i (lib.rs 251-258)
KeepFlags(mask, n) == [i \in 1..n |-> (mask \div Pow2(i - 1)) % 2 = 1]

SubsetCapacity(cans, keep_flags) ==
    SumSeq([i \in 1..Len(cans) |-> IF keep_flags[i] THEN cans[i].spec.capacity ELSE 0])

SubsetEmptyWeight(cans, keep_flags) ==
    SumSeq([i \in 1..Len(cans) |-> IF keep_flags[i] THEN cans[i].spec.empty_weight ELSE 0])

SubsetCount(keep_flags) ==
    SumSeq([i \in 1..Len(keep_flags) |-> IF keep_flags[i] THEN 1 ELSE 0])

NoBest == [some |-> FALSE, keep |-> <<>>, weight |-> I32_MAX, count |-> USIZE_MAX]

\* the capacity test left out
Infeasible_Never(capacity, total) == FALSE

\* lib.rs 260-262: a subset that cannot hold the fuel is skipped
Infeasible(capacity, total) == capacity < total

\* a comparison that prefers fewer canisters before lighter ones
Improves_CountFirst(empty_weight, count, best) ==
    \/ count < best.count
    \/ (count = best.count /\ empty_weight < best.weight)

\* lib.rs 263: strictly lighter, or as light with strictly fewer canisters
Improves(empty_weight, count, best) ==
    \/ empty_weight < best.weight
    \/ (empty_weight = best.weight /\ count < best.count)

\* the loop for mask in 1..(1 << n), from `mask` on
RECURSIVE SearchFrom(_, _, _, _)
SearchFrom(cans, total, mask, best) ==
    IF mask >= Pow2(Len(cans))
    THEN best
    ELSE LET keep_flags   == KeepFlags(mask, Len(cans))
             capacity     == SubsetCapacity(cans, keep_flags)
             empty_weight == SubsetEmptyWeight(cans, keep_flags)
             count        == SubsetCount(keep_flags)
         IN  IF Infeasible(capacity, total)
             THEN SearchFrom(cans, total, mask + 1, best)
             ELSE IF Improves(empty_weight, count, best)
                  THEN SearchFrom(cans, total, mask + 1,
                                  [some |-> TRUE, keep |-> keep_flags,
                                   weight |-> empty_weight, count |-> count])
                  ELSE SearchFrom(cans, total, mask + 1, best)

BestKeep(cans, total) == SearchFrom(cans, total, 1, NoBest)

-----------------------------------------------------------------------------
(* Target fuel levels, lib.rs 272-299 *)

\* final_fuel[idx] = can.fuel left out
StartFuel_Zero(cans, keep) == [i \in 1..Len(cans) |-> 0]

\* lib.rs 272, 277-279: kept cans start from their own fuel
StartFuel(cans, keep) == [i \in 1..Len(cans) |-> IF keep[i] THEN cans[i].fuel ELSE 0]

\* lib.rs 276-282: remaining is the fuel of the cans that are not kept
StartRemaining(cans, keep, total) ==
    total - SumSeq([i \in 1..Len(cans) |-> IF keep[i] THEN cans[i].fuel ELSE 0])

\* position of x in a list sorted by descending key, behind every element
\* whose key is not smaller: sort_by_key(Reverse(..)) is a stable sort
RECURSIVE InsertByKey(_, _, _)
InsertByKey(sorted, x, key) ==
    IF sorted = <<>> THEN <<x>>
    ELSE IF key[sorted[1]] >= key[x]
         THEN <<sorted[1]>> \o InsertByKey(Tail(sorted), x, key)
         ELSE <<x>> \o sorted

RECURSIVE SortByKeyReverse(_, _)
SortByKeyReverse(idxs, key) ==
    IF idxs = <<>> THEN <<>>
    ELSE InsertByKey(SortByKeyReverse(SubSeq(idxs, 1, Len(idxs) - 1), key),
                     idxs[Len(idxs)], key)

\* sorted by ascending spare capacity: Reverse left out
KeptIdxs_Ascending(cans, keep, final_fuel) ==
    SortByKeyReverse(SelectSeq([i \in 1..Len(cans) |-> i], LAMBDA i : keep[i]),
                     [i \in 1..Len(cans) |-> final_fuel[i] - cans[i].spec.capacity])

\* lib.rs 285-286
KeptIdxs(cans, keep, final_fuel) ==
    SortByKeyReverse(SelectSeq([i \in 1..Len(cans) |-> i], LAMBDA i : keep[i]),
                     [i \in 1..Len(cans) |-> cans[i].spec.capacity - final_fuel[i]])

\* the whole spare capacity, not capped by what remains
Give_Spare(spare, remaining) == spare

\* lib.rs 291-292
Give(spare, remaining) == Min(spare, remaining)

\* lib.rs 287-295, from position k of kept_idxs on
RECURSIVE FillFrom(_, _, _, _, _)
FillFrom(cans, kept_idxs, k, final_fuel, remaining) ==
    IF k > Len(kept_idxs) \/ remaining <= 0
    THEN [final_fuel |-> final_fuel, remaining |-> remaining]
    ELSE LET idx   == kept_idxs[k]
             spare == cans[idx].spec.capacity - final_fuel[idx]
             give  == Give(spare, remaining)
         IN  FillFrom(cans, kept_idxs, k + 1,
                      [final_fuel EXCEPT ![idx] = @ + give], remaining - give)

Distribute(cans, keep, total) ==
    LET start == StartFuel(cans, keep)
    IN  FillFrom(cans, KeptIdxs(cans, keep, start), 1, start,
                 StartRemaining(cans, keep, total))

-----------------------------------------------------------------------------
(* Transfer matching, lib.rs 301-359 *)

\* the deficits listed from the last canister to the first
Deficits_Reversed(cans, final_fuel) ==
    LET idxs == SelectSeq([i \in 1..Len(cans) |-> i],
                          LAMBDA i : final_fuel[i] - cans[i].fuel > 0)
        m    == Len(idxs)
    IN  [k \in 1..m |-> <<idxs[m + 1 - k],
                           final_fuel[idxs[m + 1 - k]] - cans[idxs[m + 1 - k]].fuel>>]

\* lib.rs 302-313: <<idx, need>> of every can below its target, by index
Deficits(cans, final_fuel) ==
    LET idxs == SelectSeq([i \in 1..Len(cans) |-> i],
                          LAMBDA i : final_fuel[i] - cans[i].fuel > 0)
    IN  [k \in 1..Len(idxs) |-> <<idxs[k], final_fuel[idxs[k]] - cans[idxs[k]].fuel>>]

\* a dropped can offering its gross weight instead of its fuel
Donors_Gross(cans, keep, final_fuel) ==
    LET idxs == SelectSeq([i \in 1..Len(cans) |-> i],
                          LAMBDA i : (~keep[i]) \/ final_fuel[i] < cans[i].fuel)
    IN  [k \in 1..Len(idxs) |->
            <<idxs[k], IF keep[idxs[k]]
                       THEN cans[idxs[k]].fuel - final_fuel[idxs[k]]
                       ELSE cans[idxs[k]].gross>>]

\* lib.rs 314-331: <<idx, available>>: a dropped can gives all its fuel, a
\* kept can what it holds above its target
Donors(cans, keep, final_fuel) ==
    LET idxs == SelectSeq([i \in 1..Len(cans) |-> i],
                          LAMBDA i : (~keep[i]) \/ final_fuel[i] < cans[i].fuel)
    IN  [k \in 1..Len(idxs) |->
            <<idxs[k], IF keep[idxs[k]]
                       THEN cans[idxs[k]].fuel - final_fuel[idxs[k]]
                       ELSE cans[idxs[k]].fuel>>]

\* the amount booked from recipient to donor
AddTransfer_Swapped(transfers, d_idx, r_idx, give) ==
    [transfers EXCEPT ![r_idx][d_idx] = @ + give]

\* lib.rs 343
AddTransfer(transfers, d_idx, r_idx, give) ==
    [transfers EXCEPT ![d_idx][r_idx] = @ + give]

\* lib.rs 335-349: one donor against the deficits from position k on
RECURSIVE MatchDonor(_, _, _, _, _)
MatchDonor(d_idx, d_available, k, deficits, transfers) ==
    IF k > Len(deficits)
    THEN [deficits |-> deficits, transfers |-> transfers]
    ELSE LET r_idx == deficits[k][1]
             need  == deficits[k][2]
             give  == Min(d_available, need)
         IN  IF need = 0 \/ give = 0
             THEN MatchDonor(d_idx, d_available, k + 1, deficits, transfers)
             ELSE LET t2 == AddTransfer(transfers, d_idx, r_idx, give)
                      d2 == [deficits EXCEPT ![k] = <<r_idx, need - give>>]
                  IN  IF d_available - give = 0
                      THEN [deficits |-> d2, transfers |-> t2]
                      ELSE MatchDonor(d_idx, d_available - give, k + 1, d2, t2)

\* lib.rs 333-355: the donors in order, from donor j on
RECURSIVE MatchFrom(_, _, _, _)
MatchFrom(donors, j, deficits, transfers) ==
    IF j > Len(donors)
    THEN [deficits |-> deficits, transfers |-> transfers]
    ELSE LET m == MatchDonor(donors[j][1], donors[j][2], 1, deficits, transfers)
         IN  MatchFrom(donors, j + 1, m.deficits, m.transfers)

Match(cans, keep, final_fuel) ==
    MatchFrom(Donors(cans, keep, final_fuel), 1, Deficits(cans, final_fuel),
              Replicate(Replicate(0, Len(cans)), Len(cans)))

-----------------------------------------------------------------------------
(* solve_greedy, lib.rs 232-366, and solve_plan, lib.rs 89-101.  The field  *)
(* path lists the phases the call went through.                            *)

\* lib.rs 242-365: search, fill, match
SearchAndPlan(cans, total) ==
    LET best == BestKeep(cans, total)
    IN  IF ~best.some
        THEN PlanErr("unable to carry enough capacity", <<"search">>)
        ELSE LET fill == Distribute(cans, best.keep, total)
             IN  IF fill.remaining > 0
                 THEN PlanErr("could not fit all fuel into kept cans",
                              <<"search", "fill">>)
                 ELSE LET m == Match(cans, best.keep, fill.final_fuel)
                      IN  IF \E k \in 1..Len(m.deficits) : m.deficits[k][2] > 0
                          THEN PlanErr("not enough donor fuel to satisfy plan",
                                       <<"search", "fill", "match">>)
                          ELSE PlanOk(best.keep, fill.final_fuel, m.transfers,
                                      <<"search", "fill", "match">>)

\* the total_fuel == 0 shortcut left out
solve_greedy_NoShortcut(cans) == SearchAndPlan(cans, total_fuel(cans))

solve_greedy(cans) ==
    LET n     == Len(cans)
        total == total_fuel(cans)
    IN  IF total = 0
        THEN PlanOk(Replicate(FALSE, n), Replicate(0, n),
                    Replicate(Replicate(0, n), n), <<"zero">>)
        ELSE SearchAndPlan(cans, total)

\* the is_empty test left out
solve_plan_NoEmptyCheck(cans) == solve_greedy(cans)

solve_plan(cans) ==
    IF cans = <<>>
    THEN PlanErr("no cans provided", <<>>)
    ELSE solve_greedy(cans)

-----------------------------------------------------------------------------
(* The run: compute_plan_text, lib.rs 458-468 *)

NotBuilt == [tag |-> "None", cans |-> <<>>, err |-> NoError]
NoResult == [tag |-> "None", err |-> "", keep |-> <<>>, final_fuel |-> <<>>,
             transfers |-> <<>>, path |-> <<>>]

EnteredCount == Len(input.msr_110) + Len(input.msr_227) + Len(input.msr_450)

Init ==
    /\ input = [msr_110 |-> <<>>, msr_227 |-> <<>>, msr_450 |-> <<>>]
    /\ pc = "input"
    /\ built = NotBuilt
    /\ result = NoResult

\* one more gross weight in the list of a size (GrossInput, lib.rs 45-50)
Enter110 ==
    /\ pc = "input" /\ EnteredCount < MaxCans
    /\ \E g \in Gross110 : input' = [input EXCEPT !.msr_110 = Append(@, g)]
    /\ UNCHANGED <<pc, built, result>>

Enter227 ==
    /\ pc = "input" /\ EnteredCount < MaxCans
    /\ \E g \in Gross227 : input' = [input EXCEPT !.msr_227 = Append(@, g)]
    /\ UNCHANGED <<pc, built, result>>

Enter450 ==
    /\ pc = "input" /\ EnteredCount < MaxCans
    /\ \E g \in Gross450 : input' = [input EXCEPT !.msr_450 = Append(@, g)]
    /\ UNCHANGED <<pc, built, result>>

\* lib.rs 462-463: an Err of the builder ends the run
Build ==
    /\ pc = "input"
    /\ built' = build_cans_from_gross(input)
    /\ pc' = IF built'.tag = "Ok" THEN "built" ELSE "input_error"
    /\ UNCHANGED <<input, result>>

\* lib.rs 465
Solve ==
    /\ pc = "built"
    /\ result' = solve_plan(built.cans)
    /\ pc' = "done"
    /\ UNCHANGED <<input, built>>

Next == Enter110 \/ Enter227 \/ Enter450 \/ Build \/ Solve

Spec == Init /\ [][Next]_vars

-----------------------------------------------------------------------------
(* Vocabulary of the properties *)

Cans == built.cans
N == Len(Cans)
Solved == pc = "done"
Returned == pc = "done" /\ result.tag = "Ok"

Fuel(i) == Cans[i].fuel
Capacity(i) == Cans[i].spec.capacity
EmptyWeight(i) == Cans[i].spec.empty_weight

TotalFuel == SumSeq([i \in 1..N |-> Fuel(i)])
TotalCapacity == SumSeq([i \in 1..N |-> Capacity(i)])

\* over a set K of canister indices
CapacityOf(K) == SumSeq([i \in 1..N |-> IF i \in K THEN Capacity(i) ELSE 0])
EmptyWeightOf(K) == SumSeq([i \in 1..N |-> IF i \in K THEN EmptyWeight(i) ELSE 0])

Kept(p) == {i \in 1..N : p.keep[i]}
Outflow(p, i) == SumSeq(p.transfers[i])
Inflow(p, i) == SumSeq([d \in 1..N |-> p.transfers[d][i]])

\* the Plan invariants of the data model
CapacityRespect(p) ==
    \A i \in 1..N :
        IF p.keep[i] THEN 0 <= p.final_fuel[i] /\ p.final_fuel[i] <= Capacity(i)
                     ELSE p.final_fuel[i] = 0

FlowConservation(p) ==
    /\ \A d, r \in 1..N : p.transfers[d][r] >= 0
    /\ \A i \in 1..N : p.transfers[i][i] = 0
    /\ \A i \in 1..N : p.final_fuel[i] = Fuel(i) + Inflow(p, i) - Outflow(p, i)

NoOverDonation(p) == \A i \in 1..N : Outflow(p, i) <= Fuel(i)

FuelConservation(p) == SumSeq(p.final_fuel) = TotalFuel

ValidPlan(p) ==
    CapacityRespect(p) /\ FlowConservation(p) /\ NoOverDonation(p) /\ FuelConservation(p)

-----------------------------------------------------------------------------
(* C1: in every returned Plan a dropped canister ends with final_fuel 0 and *)
(* a kept canister with 0 <= final_fuel <= capacity.                        *)
C1_CapacityRespect == Returned => CapacityRespect(result)

(* C2: with total fuel T > 0, the kept set of a returned Plan has capacity  *)
(* >= T, and no set of canisters with capacity >= T is strictly lighter in  *)
(* empty weight, or as light with strictly fewer canisters.                 *)
C2_MinimalSubset ==
    (Returned /\ TotalFuel > 0) =>
        /\ CapacityOf(Kept(result)) >= TotalFuel
        /\ \A K \in SUBSET (1..N) :
              CapacityOf(K) >= TotalFuel =>
                  /\ EmptyWeightOf(K) >= EmptyWeightOf(Kept(result))
                  /\ (EmptyWeightOf(K) = EmptyWeightOf(Kept(result))
                         => Cardinality(K) >= Cardinality(Kept(result)))

\* Scenario E: a single dropped canister could hold all the fuel, and the
\* lighter pair is kept
C2_Witness ==
    /\ Returned /\ TotalFuel > 0
    /\ Cardinality(Kept(result)) = 2
    /\ \E i \in 1..N : ~result.keep[i] /\ Capacity(i) >= TotalFuel

(* C3: the returned Plan is lexicographically minimal in (empty weight of   *)
(* the kept canisters, number of donor-recipient pairs, fuel moved) among   *)
(* the plans that satisfy the Plan invariants.  The competitors taken here  *)
(* are the plans the planner's own fill and matching give for every other   *)
(* choice of kept canisters; each is compared only if it is a valid plan.   *)
Pairs(p) == Cardinality({x \in (1..N) \X (1..N) : p.transfers[x[1]][x[2]] > 0})
Moved(p) == SumSeq([i \in 1..N |-> Outflow(p, i)])
Cost(p) == <<EmptyWeightOf(Kept(p)), Pairs(p), Moved(p)>>

LexLess(a, b) ==
    \/ a[1] < b[1]
    \/ (a[1] = b[1] /\ a[2] < b[2])
    \/ (a[1] = b[1] /\ a[2] = b[2] /\ a[3] < b[3])

PlanKeeping(K) ==
    LET keep == [i \in 1..N |-> i \in K]
        fill == Distribute(Cans, keep, TotalFuel)
        m    == Match(Cans, keep, fill.final_fuel)
    IN  [keep |-> keep, final_fuel |-> fill.final_fuel, transfers |-> m.transfers]

C3_LexMinimal ==
    Returned =>
        \A K \in SUBSET (1..N) :
            ValidPlan(PlanKeeping(K)) => ~LexLess(Cost(PlanKeeping(K)), Cost(result))

(* C4: in every returned Plan the final fuel sums to the initial fuel.      *)
C4_FuelConservation == Returned => FuelConservation(result)

\* fuel has been moved
C4_Witness == Returned /\ \E d, r \in 1..N : result.transfers[d][r] > 0

(* C5: in every returned Plan, final_fuel[i] = fuel[i] + inflow - outflow   *)
(* for every canister, every transfer is >= 0 and transfers[i][i] = 0.      *)
C5_FlowConservation == Returned => FlowConservation(result)

\* a recipient filled from two donors
C5_Witness ==
    /\ Returned
    /\ \E r, d1, d2 \in 1..N :
          d1 # d2 /\ result.transfers[d1][r] > 0 /\ result.transfers[d2][r] > 0

(* C6: a non-empty list with every fuel >= 0 and total capacity >= total    *)
(* fuel gets a Plan, never an internal-consistency error.                   *)
C6_NoInternalError ==
    (Solved /\ N > 0 /\ (\A i \in 1..N : Fuel(i) >= 0) /\ TotalCapacity >= TotalFuel)
        => result.tag = "Ok"

\* the leftover fuel had to be spread over two kept canisters
C6_Witness ==
    /\ Solved /\ N > 0 /\ TotalCapacity >= TotalFuel /\ result.tag = "Ok"
    /\ \E a, b \in 1..N :
          a # b /\ result.final_fuel[a] > Fuel(a) /\ result.final_fuel[b] > Fuel(b)

(* C7: a non-empty list whose total capacity is below its total fuel gets   *)
(* the infeasibility error, never a Plan or another error.                  *)
C7_Infeasible ==
    (Solved /\ N > 0 /\ TotalCapacity < TotalFuel)
        => (result.tag = "Err" /\ result.err = "unable to carry enough capacity")

C7_Witness ==
    Solved /\ N > 1 /\ TotalCapacity < TotalFuel /\ result.tag = "Err"

(* C8: in every returned Plan no canister donates more than its initial     *)
(* fuel.                                                                    *)
C8_NoOverDonation == Returned => NoOverDonation(result)

\* a donor emptied into two recipients
C8_Witness ==
    /\ Returned
    /\ \E d, r1, r2 \in 1..N :
          /\ r1 # r2 /\ result.transfers[d][r1] > 0 /\ result.transfers[d][r2] > 0
          /\ Outflow(result, d) = Fuel(d)

(* C9: build_cans_from_gross is all-or-nothing.  With a gross weight below  *)
(* its size's empty weight anywhere it returns an error (naming such a      *)
(* weight and its size) and no canisters; otherwise one canister per        *)
(* weight, the 110g entries, then the 227g, then the 450g, each in input    *)
(* order with fuel = gross - empty weight >= 0.                             *)
BelowEmpty(spec, gross_list) ==
    {k \in 1..Len(gross_list) : gross_list[k] < spec.empty_weight}

ExpectedCans ==
    [k \in 1..Len(input.msr_110) |->
        [spec |-> MSR_110, gross |-> input.msr_110[k],
         fuel |-> input.msr_110[k] - MSR_110.empty_weight]]
    \o [k \in 1..Len(input.msr_227) |->
        [spec |-> MSR_227, gross |-> input.msr_227[k],
         fuel |-> input.msr_227[k] - MSR_227.empty_weight]]
    \o [k \in 1..Len(input.msr_450) |->
        [spec |-> MSR_450, gross |-> input.msr_450[k],
         fuel |-> input.msr_450[k] - MSR_450.empty_weight]]

ErrorNames(spec, gross_list) ==
    /\ built.err.name = spec.name
    /\ built.err.empty_weight = spec.empty_weight
    /\ \E k \in BelowEmpty(spec, gross_list) : built.err.gross = gross_list[k]

C9_AllOrNothing ==
    pc # "input" =>
        IF BelowEmpty(MSR_110, input.msr_110) \cup BelowEmpty(MSR_227, input.msr_227)
              \cup BelowEmpty(MSR_450, input.msr_450) # {}
        THEN /\ built.tag = "Err" /\ built.cans = <<>>
             /\ \/ ErrorNames(MSR_110, input.msr_110)
                \/ ErrorNames(MSR_227, input.msr_227)
                \/ ErrorNames(MSR_450, input.msr_450)
        ELSE /\ built.tag = "Ok" /\ built.cans = ExpectedCans
             /\ \A i \in 1..N : Fuel(i) >= 0

\* the batch fails on a later list after good weights in an earlier one
C9_Witness ==
    /\ pc = "input_error" /\ built.tag = "Err" /\ built.cans = <<>>
    /\ Len(input.msr_110) > 0 /\ BelowEmpty(MSR_110, input.msr_110) = {}
    /\ BelowEmpty(MSR_450, input.msr_450) # {}

(* C10: a non-empty list with total fuel 0 gets, without the subset search, *)
(* the Plan that keeps nothing: keep all false, final_fuel all 0, transfers *)
(* all 0, of sizes n, n and n x n.                                          *)
C10_ZeroFuel ==
    (Solved /\ N > 0 /\ TotalFuel = 0) =>
        /\ result.tag = "Ok"
        /\ Len(result.keep) = N /\ Len(result.final_fuel) = N
        /\ Len(result.transfers) = N
        /\ \A i \in 1..N : ~result.keep[i] /\ result.final_fuel[i] = 0
        /\ \A d \in 1..N : Len(result.transfers[d]) = N
        /\ \A d, r \in 1..N : result.transfers[d][r] = 0
        /\ \A k \in 1..Len(result.path) : result.path[k] # "search"

C10_Witness == Solved /\ N > 1 /\ TotalFuel = 0 /\ result.tag = "Ok"


(* C11: solve_plan on an empty canister list returns the error "no cans    *)
(* provided" at once, before the zero-fuel shortcut or the search, and      *)
(* never a Plan.                                                            *)
C11_EmptyList ==
    (Solved /\ N = 0) =>
        /\ result.tag = "Err" /\ result.err = "no cans provided"
        /\ result.path = <<>>

\* nothing was entered, the builder returned the empty list, the planner ran
C11_Witness ==
    /\ Solved /\ built.tag = "Ok" /\ N = 0 /\ EnteredCount = 0
    /\ result.tag = "Err"

(* C12: leftover fuel goes to the kept canisters by descending initial      *)
(* spare capacity (capacity - fuel), each filled to capacity before the     *)
(* next gets any: for kept a, b with spare(a) > spare(b), if b ends above   *)
(* its fuel then a ends at its capacity; so at most one canister that       *)
(* receives fuel ends below its capacity.                                   *)
Spare(i) == Capacity(i) - Fuel(i)
Receives(i) == result.final_fuel[i] > Fuel(i)

C12_DescendingSpare ==
    Returned =>
        /\ \A a, b \in Kept(result) :
              (Spare(a) > Spare(b) /\ Receives(b)) => result.final_fuel[a] = Capacity(a)
        /\ Cardinality({i \in 1..N : Receives(i) /\ result.final_fuel[i] < Capacity(i)}) <= 1

\* two kept canisters of different spare capacity both receive fuel, the
\* one with less spare stays below its capacity
C12_Witness ==
    /\ Returned
    /\ \E a, b \in Kept(result) :
          /\ Spare(a) > Spare(b) /\ Receives(a) /\ Receives(b)
          /\ result.final_fuel[b] < Capacity(b)

(* C13: the transfer matrix is the greedy matching of donors in ascending   *)
(* index against recipients with a deficit in ascending index, each step    *)
(* moving min(donor remaining, recipient need); so it is a monotone         *)
(* staircase: d1 < d2, transfers[d1][r1] > 0, transfers[d2][r2] > 0 imply   *)
(* r1 <= r2.  The matching is stated in closed form: donor d covers the     *)
(* stretch of fuel from the supply of the donors before it to its own, and  *)
(* recipient r the stretch of its need; transfers[d][r] is their overlap.   *)
Max(a, b) == IF a > b THEN a ELSE b

Supply(i) ==
    IF result.keep[i] THEN Max(0, Fuel(i) - result.final_fuel[i]) ELSE Fuel(i)
Need(i) == Max(0, result.final_fuel[i] - Fuel(i))

SupplyUpTo(d) == SumTo([i \in 1..N |-> Supply(i)], d)
NeedUpTo(r) == SumTo([i \in 1..N |-> Need(i)], r)

Overlap(d, r) ==
    Max(0, Min(SupplyUpTo(d), NeedUpTo(r)) - Max(SupplyUpTo(d - 1), NeedUpTo(r - 1)))

C13_GreedyStaircase ==
    Returned =>
        /\ \A d, r \in 1..N : result.transfers[d][r] = Overlap(d, r)
        /\ \A d1, d2, r1, r2 \in 1..N :
              (d1 < d2 /\ result.transfers[d1][r1] > 0 /\ result.transfers[d2][r2] > 0)
                  => r1 <= r2

\* a step of the staircase: a later donor reaches a later recipient
C13_Witness ==
    /\ Returned
    /\ \E d1, d2, r1, r2 \in 1..N :
          /\ d1 < d2 /\ r1 < r2
          /\ result.transfers[d1][r1] > 0 /\ result.transfers[d2][r2] > 0

(* C14: in every returned Plan fuel flows only from dropped to kept         *)
(* canisters (transfers[d][r] > 0 implies ~keep[d] and keep[r]), every kept *)
(* canister ends with at least its own fuel, no kept canister is among the  *)
(* donors, and every donor gives away all it offers.                        *)
DonorsOfResult == Donors(Cans, result.keep, result.final_fuel)

====
